---- MODULE Spec2Model ----
(***************************************************************************)
(* Rendering engine of the format-preserving TOML document model           *)
(* (src/src/display.rs): the Display implementations of Array, InlineTable,*)
(* Table and Document, the depth-first table visitor and the original-order*)
(* reconstruction of Document::to_string_in_original_order.                *)
(*                                                                         *)
(* One behaviour is one rendering call.  The object rendered (self) and    *)
(* the entry point (job) are chosen in Init; every action is one step of   *)
(* the code of that entry point.                                           *)
(***************************************************************************)
EXTENDS Integers, Sequences, FiniteSets, TLC

VARIABLES
    job,               \* entry point: "to_string", "to_string_in_original_order", "Array", "InlineTable"
    self,              \* the Document, Array or InlineTable being rendered (read-only)
    pc,                \* position in the code of the entry point
    stack,             \* call stack of visit_nested_tables (one frame per active call)
    path,              \* the path accumulator, path: &mut Vec<&str>
    positions,         \* let mut positions = vec![]
    position_iter,     \* positions.iter(): index of the next element it yields
    current_position,  \* Option<&usize>
    should_print,      \* let mut should_print = true
    i,                 \* enumerate() index of join / of the InlineTable loop
    iter,              \* index of the next element of the iterator being consumed
    out,               \* everything written to the sink, one token per write
    calls,             \* log of the visit_table invocations: table, path, is_array_of_tables
    walks,             \* number of calls of visit_nested_tables on the root so far
    passes,            \* number of iterations of the while loop started so far
    advanced,          \* number of position_iter.next() calls in the current pass
    error,             \* a write to the sink returned Err: the Result on its way to the caller
    renders,           \* the render of the document under way: the first or the second
    first              \* the text the first render returned

vars == <<job, self, pc, stack, path, positions, position_iter, current_position,
          should_print, i, iter, out, calls, walks, passes, advanced, error,
          renders, first>>

(***************************************************************************)
(* Bounds of the model.                                                    *)
(***************************************************************************)
MaxTables       == 4   \* tables (the root included) of a document of nested tables only
MaxArrayTables  == 3   \* tables of a document that may hold arrays of tables
MaxHeaderTables == 2   \* tables of a document with implicit tables and values
MaxValues       == 1   \* direct Value entries of a table
MaxLen          == 3   \* elements of an Array, entries of an InlineTable

(***************************************************************************)
(* Option<T>: None is the empty tuple, Some(x) the one-element tuple.      *)
(***************************************************************************)
None == <<>>
Some(x) == <<x>>
is_some(o) == o # None
is_none(o) == o = None

Last(s) == s[Len(s)]
Front(s) == SubSeq(s, 1, Len(s) - 1)

RECURSIVE Concat(_)
Concat(ss) == IF ss = <<>> THEN <<>> ELSE Head(ss) \o Concat(Tail(ss))

(***************************************************************************)
(* Data model.  A document is a set of tables 1..n, table 1 the root.      *)
(* items[t] is the ordered mapping of table t: a sequence of entries       *)
(* [key, item, tables], item the Item variant and tables the nested table  *)
(* (Item::Table) or the members in sequence order (Item::ArrayOfTables).   *)
(***************************************************************************)
Root == 1

ValueEntry(j) == [key |-> <<"v", j>>, item |-> "Value", tables |-> <<>>]
TableEntry(t) == [key |-> <<"t", t>>, item |-> "Table", tables |-> <<t>>]
ArrayOfTablesEntry(ts) == [key |-> <<"a", Head(ts)>>, item |-> "ArrayOfTables", tables |-> ts]

\* The children cs of one table (in stored order) as entries: a nested table is
\* one entry, a maximal run of array members is one array of tables.
RECURSIVE ChildEntries(_, _, _)
ChildEntries(kind, cs, run) ==
    IF cs = <<>>
    THEN IF run = <<>> THEN <<>> ELSE <<ArrayOfTablesEntry(run)>>
    ELSE IF kind[Head(cs)] = "ArrayOfTables"
         THEN ChildEntries(kind, Tail(cs), Append(run, Head(cs)))
         ELSE (IF run = <<>> THEN <<>> ELSE <<ArrayOfTablesEntry(run)>>)
              \o <<TableEntry(Head(cs))>> \o ChildEntries(kind, Tail(cs), <<>>)

RECURSIVE Ascending(_, _, _)
Ascending(S, lo, hi) ==
    IF lo > hi THEN <<>>
    ELSE (IF lo \in S THEN <<lo>> ELSE <<>>) \o Ascending(S, lo + 1, hi)

MkDocument(n, parent, kind, position, implicit, nvalues) ==
    [n        |-> n,
     items    |-> [t \in 1..n |->
                     [j \in 1..nvalues[t] |-> ValueEntry(j)]
                     \o ChildEntries(kind,
                                     Ascending({c \in 2..n : parent[c] = t}, 2, n),
                                     <<>>)],
     position |-> position,
     implicit |-> implicit]

\* Ordered trees on 1..n, numbered breadth first: every shape exactly once.
Parents(n) ==
    {p \in [2..n -> 1..n] :
        \A c \in 2..n : p[c] < c /\ (c > 2 => p[c - 1] <= p[c])}

\* Option<usize> with the position values 1..k.
Positions(k) == {None} \cup {Some(p) : p \in 1..k}

Explicit(n) == [t \in 1..n |-> FALSE]
NoValues(n) == [t \in 1..n |-> 0]

\* The position values in use are 1..m for some m: the code sorts the values
\* and compares them, nothing else, so the gaps between them play no part.
NoGaps(f, n) ==
    \A a \in 1..n : is_some(f[a]) =>
        \A q \in 1..(f[a][1] - 1) : \E b \in 1..n : f[b] = Some(q)

\* The assignments of positions to n tables in which no two tables share a
\* position, as a parser leaves them.
UniquePositions(n, k) ==
    {f \in [1..n -> Positions(k)] :
        /\ NoGaps(f, n)
        /\ \A a, b \in 1..n : (a # b /\ is_some(f[a])) => f[a] # f[b]}

\* The assignments of positions to n tables, shared positions included.
SharedPositions(n, k) == {f \in [1..n -> Positions(k)] : NoGaps(f, n)}

\* Documents of nested tables only, with every assignment of unique positions
\* 1..MaxTables - 1.
NestedDocuments ==
    UNION {
      {MkDocument(n, parent, [t \in 2..n |-> "Table"], position, Explicit(n), NoValues(n)) :
          parent \in Parents(n),
          position \in UniquePositions(n, MaxTables - 1)}
      : n \in 1..MaxTables}

\* Documents with arrays of tables, with every assignment of the positions
\* 1..MaxArrayTables - 1, shared positions included.
ArrayDocuments ==
    UNION {
      {MkDocument(n, parent, kind, position, Explicit(n), NoValues(n)) :
          parent \in Parents(n),
          kind \in [2..n -> {"Table", "ArrayOfTables"}],
          position \in SharedPositions(n, MaxArrayTables - 1)}
      : n \in 1..MaxArrayTables}

\* Documents parsed from an empty text (the root alone has a position) or
\* built from nothing, with every assignment of implicit and of the values.
HeaderDocuments ==
    UNION {
      {MkDocument(n, parent, kind, [t \in 1..n |-> IF t = Root THEN rootpos ELSE None],
                  implicit, nvalues) :
          parent \in Parents(n),
          kind \in [2..n -> {"Table", "ArrayOfTables"}],
          rootpos \in {None, Some(1)},
          implicit \in [1..n -> BOOLEAN],
          nvalues \in [1..n -> {0, MaxValues}]}
      : n \in 1..MaxHeaderTables}

Documents == NestedDocuments \cup ArrayDocuments \cup HeaderDocuments

values_len(d, t) == Cardinality({j \in 1..Len(d.items[t]) : d.items[t][j].item = "Value"})

(***************************************************************************)
(* The sink.  One token per write: what is written, the table it belongs   *)
(* to (0: none) and its argument.                                          *)
(***************************************************************************)
Tok(w, t, arg) == [w |-> w, table |-> t, arg |-> arg]

\* The header printer without the test of implicit.
Header_NoImplicit(d, t, p, is_array_of_tables) ==
    IF p = <<>> THEN <<>>
    ELSE IF is_array_of_tables
    THEN <<Tok("decor.prefix", t, <<>>), Tok("[[", t, <<>>), Tok("path", t, p),
           Tok("]]", t, <<>>), Tok("decor.suffix", t, <<>>)>>
    ELSE <<Tok("decor.prefix", t, <<>>), Tok("[", t, <<>>), Tok("path", t, p),
           Tok("]", t, <<>>), Tok("decor.suffix", t, <<>>)>>

\* fn visit_table: the header line.
Header(d, t, p, is_array_of_tables) ==
    IF p = <<>> THEN <<>>
    ELSE IF is_array_of_tables
    THEN <<Tok("decor.prefix", t, <<>>), Tok("[[", t, <<>>), Tok("path", t, p),
           Tok("]]", t, <<>>), Tok("decor.suffix", t, <<>>)>>
    ELSE IF ~(d.implicit[t] /\ values_len(d, t) = 0)
    THEN <<Tok("decor.prefix", t, <<>>), Tok("[", t, <<>>), Tok("path", t, p),
           Tok("]", t, <<>>), Tok("decor.suffix", t, <<>>)>>
    ELSE <<>>

\* fn visit_table: the body, one line per direct Value entry.
Body(d, t) ==
    Concat([j \in 1..Len(d.items[t]) |->
              IF d.items[t][j].item = "Value"
              THEN <<Tok("key=value", t, d.items[t][j].key)>>
              ELSE <<>>])

visit_table(d, t, p, is_array_of_tables) == Header(d, t, p, is_array_of_tables) \o Body(d, t)

(***************************************************************************)
(* visit_nested_tables as a stack machine.  A frame is one active call:    *)
(* its table, its is_array_of_tables argument, whether its callback has    *)
(* run, and the cursor of its two loops (entry, member).                   *)
(***************************************************************************)
Frame(t, is_array, called) ==
    [table |-> t, is_array_of_tables |-> is_array, called |-> called, item |-> 1, member |-> 1]

Top == Last(stack)
Walking == pc \in {"plain", "collect", "pass"}

\* position_iter.next()
IterNext(ps, it) == IF it <= Len(ps) THEN Some(ps[it]) ELSE None
\* An iterator that is read but not moved.
IterAdvance_Peek(ps, it) == it
IterAdvance(ps, it) == IF it <= Len(ps) THEN it + 1 ELSE it

\* positions.sort(): insertion sort, duplicates kept.
RECURSIVE Insert(_, _)
Insert(s, x) ==
    IF s = <<>> THEN <<x>>
    ELSE IF x <= Head(s) THEN <<x>> \o s
    ELSE <<Head(s)>> \o Insert(Tail(s), x)

\* A schedule that is a set: sorted, one entry for each position value.
Sort_Set(s) ==
    LET S == {s[k] : k \in 1..Len(s)}
    IN CHOOSE r \in [1..Cardinality(S) -> S] :
           \A j, k \in 1..Cardinality(S) : j < k => r[j] < r[k]

\* A schedule sorted from the largest position to the smallest.
Sort_Descending(s) ==
    CHOOSE r \in [1..Len(s) -> {s[k] : k \in 1..Len(s)}] :
        /\ \A j, k \in 1..Len(s) : j < k => r[j] >= r[k]
        /\ \A v \in {s[k] : k \in 1..Len(s)} :
              Cardinality({k \in 1..Len(s) : r[k] = v})
                  = Cardinality({k \in 1..Len(s) : s[k] = v})

\* A schedule left in the order of collection.
Sort_Unsorted(s) == s

RECURSIVE Sort(_)
Sort(s) == IF s = <<>> THEN <<>> ELSE Insert(Sort(Front(s)), Last(s))

\* The verdict of the closure of the while loop on a table with position tp.
Matches(tp, cur) == tp = cur
\* A table without a position never inherits the verdict.
ShouldPrint_NoInherit(tp, cur, sp) == is_some(tp) /\ Matches(tp, cur)
ShouldPrint(tp, cur, sp) == IF is_some(tp) THEN Matches(tp, cur) ELSE sp

Emit(t, p, is_array) ==
    /\ out' = out \o visit_table(self, t, p, is_array)
    /\ calls' = Append(calls, [table |-> t, path |-> p, is_array_of_tables |-> is_array,
                              pass |-> passes])

NoEmit == UNCHANGED <<out, calls, error>>

\* visit_table on a sink whose k+1-st write of this block returns Err: the
\* first k writes are made and the ? operator returns the error.
EmitFails(t, p, is_array) ==
    \E k \in 0..(Len(visit_table(self, t, p, is_array)) - 1) :
        /\ out' = out \o SubSeq(visit_table(self, t, p, is_array), 1, k)
        /\ calls' = Append(calls, [table |-> t, path |-> p, is_array_of_tables |-> is_array,
                              pass |-> passes])
        /\ error' = TRUE

\* visit_table(f, t, path, is_array): every write succeeds, or one fails.
Visit(t, p, is_array) ==
    \/ Emit(t, p, is_array) /\ UNCHANGED error
    \/ EmitFails(t, p, is_array)

\* A callback whose Err is dropped: the traversal goes on.
Propagate_Ignore(e, p, s) == [pc |-> p, stack |-> s]

\* The ? operator after a callback: an Err leaves every active call of
\* visit_nested_tables at once, an Ok goes on.
Propagate(e, p, s) ==
    IF e THEN [pc |-> "error", stack |-> <<>>] ELSE [pc |-> p, stack |-> s]

\* The closure of Display for Table: visit_table(f, t, path, is_array).
CallbackPlain(t, p, is_array) ==
    /\ pc = "plain"
    /\ Visit(t, p, is_array)
    /\ UNCHANGED <<positions, position_iter, current_position, should_print, advanced>>

\* The closure of the first walk: collect the positions.
CallbackCollect(t, p, is_array) ==
    /\ pc = "collect"
    /\ positions' = IF is_some(self.position[t])
                    THEN Append(positions, self.position[t][1])
                    ELSE positions
    /\ NoEmit
    /\ UNCHANGED <<position_iter, current_position, should_print, advanced>>

\* A closure that returns as soon as the schedule is used up.
NothingLeft_CursorOnly(cur, sp) == is_none(cur)

\* if current_position.is_none() && !should_print { return Ok(()); }
NothingLeft(cur, sp) == is_none(cur) /\ ~sp

\* The closure of the while loop.
CallbackPass(t, p, is_array) ==
    /\ pc = "pass"
    /\ IF NothingLeft(current_position, should_print)
       THEN /\ NoEmit
            /\ UNCHANGED <<position_iter, current_position, should_print, advanced>>
       ELSE LET tp == self.position[t]
                hit == is_some(tp) /\ Matches(tp, current_position)
                sp == ShouldPrint(tp, current_position, should_print)
            IN /\ current_position' = IF hit THEN IterNext(positions, position_iter)
                                      ELSE current_position
               /\ position_iter' = IF hit THEN IterAdvance(positions, position_iter)
                                   ELSE position_iter
               /\ advanced' = IF hit THEN advanced + 1 ELSE advanced
               /\ should_print' = sp
               /\ IF sp THEN Visit(t, p, is_array) ELSE NoEmit
    /\ UNCHANGED positions

\* callback(self, path, is_array_of_tables)?: the closure the walk was given.
callback(t, p, is_array) ==
    \/ CallbackPlain(t, p, is_array)
    \/ CallbackCollect(t, p, is_array)
    \/ CallbackPass(t, p, is_array)

\* The first statement of the outermost call of visit_nested_tables.
Callback ==
    /\ Walking
    /\ ~Top.called
    /\ callback(Top.table, path, Top.is_array_of_tables)
    /\ LET r == Propagate(error', pc, [stack EXCEPT ![Len(stack)].called = TRUE])
       IN pc' = r.pc /\ stack' = r.stack
    /\ UNCHANGED <<job, self, path, i, iter, walks, passes, renders, first>>

\* The members of an array of tables walked from the last to the first.
Member_Reversed(e, m) == e.tables[Len(e.tables) - m + 1]

\* for t in a.iter(): the m-th table the loop yields (an Item::Table yields one).
Member(e, m) == e.tables[m]

\* The cursor after the child at (item, member) of entry e.
AfterChild(e, f) ==
    IF f.member < Len(e.tables)
    THEN [f EXCEPT !.member = @ + 1]
    ELSE [f EXCEPT !.item = @ + 1, !.member = 1]

\* for kv in self.items.values(): one step of the loops over the entries and
\* over the members of an array of tables.  A nested call starts with its
\* callback.
NextItem ==
    /\ Walking
    /\ Top.called
    /\ Top.item <= Len(self.items[Top.table])
    /\ LET e == self.items[Top.table][Top.item]
           n == Len(stack)
       IN IF e.item \in {"Table", "ArrayOfTables"} /\ Top.member <= Len(e.tables)
          THEN \* path.push(&kv.key.raw_value); t.visit_nested_tables(path, .., callback)
               /\ path' = Append(path, e.key)
               /\ callback(Member(e, Top.member), path', e.item = "ArrayOfTables")
               /\ LET r == Propagate(error', pc,
                                     Append([stack EXCEPT ![n] = AfterChild(e, @)],
                                            Frame(Member(e, Top.member),
                                                  e.item = "ArrayOfTables", TRUE)))
                  IN pc' = r.pc /\ stack' = r.stack
          ELSE \* _ => {}
               /\ stack' = [stack EXCEPT ![n].item = @ + 1, ![n].member = 1]
               /\ path' = path
               /\ UNCHANGED <<pc, positions, position_iter, current_position,
                              should_print, out, calls, advanced, error>>
    /\ UNCHANGED <<job, self, i, iter, walks, passes, renders, first>>

\* A caller that leaves the key of the nested table on the path.
Pop_Skipped(p) == p

\* path.pop();
Pop(p) == Front(p)

\* Ok(()) of a nested call, then path.pop() in the caller.
Return ==
    /\ Walking
    /\ Len(stack) > 1
    /\ Top.called
    /\ Top.item > Len(self.items[Top.table])
    /\ stack' = Front(stack)
    /\ path' = Pop(path)
    /\ UNCHANGED <<job, self, pc, positions, position_iter, current_position,
                   should_print, i, iter, out, calls, walks, passes, advanced>>
    /\ UNCHANGED <<error, renders, first>>

RootReturns ==
    /\ Len(stack) = 1
    /\ Top.called
    /\ Top.item > Len(self.items[Top.table])

(***************************************************************************)
(* Display for Document / Display for Table.                               *)
(***************************************************************************)
\* let mut path = Vec::new(); self.visit_nested_tables(&mut path, false, ..)
FmtStart ==
    /\ job = "to_string"
    /\ pc = "start"
    /\ pc' = "plain"
    /\ path' = <<>>
    /\ stack' = <<Frame(Root, FALSE, FALSE)>>
    /\ walks' = walks + 1
    /\ UNCHANGED <<job, self, positions, position_iter, current_position,
                   should_print, i, iter, out, calls, passes, advanced>>
    /\ UNCHANGED <<error, renders, first>>

\* The walk of Display for Table returned.
FmtTableDone ==
    /\ pc = "plain"
    /\ RootReturns
    /\ pc' = "trailing"
    /\ stack' = <<>>
    /\ UNCHANGED <<job, self, path, positions, position_iter, current_position,
                   should_print, i, iter, out, calls, walks, passes, advanced>>
    /\ UNCHANGED <<error, renders, first>>

\* A render that forgets the trailing text.
TrailingWrites_None == <<>>

\* write!(f, "{}", self.trailing) / string.push_str(&self.trailing)
TrailingWrites == <<Tok("trailing", 0, <<>>)>>

WriteTrailing ==
    /\ pc = "trailing"
    /\ out' = out \o TrailingWrites
    /\ pc' = "done"
    /\ UNCHANGED <<job, self, stack, path, positions, position_iter, current_position,
                   should_print, i, iter, calls, walks, passes, advanced>>
    /\ UNCHANGED <<error, renders, first>>

\* write!(f, "{}", self.trailing) returns Err: Display for Document returns it.
\* (String::push_str of to_string_in_original_order has no Result.)
TrailingFails ==
    /\ job = "to_string"
    /\ pc = "trailing"
    /\ error' = TRUE
    /\ pc' = "error"
    /\ UNCHANGED <<job, self, stack, path, positions, position_iter, current_position,
                   should_print, i, iter, out, calls, walks, passes, advanced,
                   renders, first>>

\* The caller renders the same document once more, in the same mode: fmt /
\* to_string_in_original_order is entered again with &self, a new sink and
\* new locals (the entry code assigns them).
RenderAgain ==
    /\ job \in {"to_string", "to_string_in_original_order"}
    /\ pc = "done"
    /\ renders = 1
    /\ renders' = 2
    /\ first' = out
    /\ pc' = "start"
    /\ out' = <<>>
    /\ calls' = <<>>
    /\ walks' = 0
    /\ passes' = 0
    /\ advanced' = 0
    /\ UNCHANGED <<job, self, stack, path, positions, position_iter, current_position,
                   should_print, i, iter, error>>

(***************************************************************************)
(* Document::to_string_in_original_order and                               *)
(* Table::visit_nested_tables_in_original_order.                           *)
(***************************************************************************)
\* let mut positions = vec![]; self.visit_nested_tables(path, .., collect)
OrigStart ==
    /\ job = "to_string_in_original_order"
    /\ pc = "start"
    /\ pc' = "collect"
    /\ path' = <<>>
    /\ positions' = <<>>
    /\ stack' = <<Frame(Root, FALSE, FALSE)>>
    /\ walks' = walks + 1
    /\ UNCHANGED <<job, self, position_iter, current_position,
                   should_print, i, iter, out, calls, passes, advanced>>
    /\ UNCHANGED <<error, renders, first>>

\* while current_position.is_some() { self.visit_nested_tables(..) .. }
LoopTest(cur) ==
    IF is_some(cur)
    THEN /\ pc' = "pass"
         /\ stack' = <<Frame(Root, FALSE, FALSE)>>
         /\ walks' = walks + 1
         /\ passes' = passes + 1
         /\ advanced' = 0
    ELSE /\ pc' = "trailing"
         /\ stack' = <<>>
         /\ UNCHANGED <<walks, passes, advanced>>

\* A flag that lives on from the render before.
StartPrinting_Stale == should_print

\* A flag that starts false.
StartPrinting_Never == FALSE

\* let mut should_print = true;
StartPrinting == TRUE

\* positions.sort(); position_iter = positions.iter(); should_print = true;
\* current_position = position_iter.next(); then the first loop test.
Sorted ==
    /\ pc = "collect"
    /\ RootReturns
    /\ positions' = Sort(positions)
    /\ should_print' = StartPrinting
    /\ current_position' = IterNext(positions', 1)
    /\ position_iter' = IterAdvance(positions', 1)
    /\ LoopTest(current_position')
    /\ UNCHANGED <<job, self, path, i, iter, out, calls>>
    /\ UNCHANGED <<error, renders, first>>

\* The verdict of a pass carried into the next pass.
AfterPass_Kept(sp) == sp

\* should_print = false; at the end of the body of the while loop.
AfterPass(sp) == FALSE

\* A pass returned: should_print = false; then the next loop test.
PassDone ==
    /\ pc = "pass"
    /\ RootReturns
    /\ should_print' = AfterPass(should_print)
    /\ LoopTest(current_position)
    /\ UNCHANGED <<job, self, path, positions, position_iter, current_position,
                   i, iter, out, calls>>
    /\ UNCHANGED <<error, renders, first>>

(***************************************************************************)
(* Display for Array and fn join.  An Array is [values, trailing_comma];   *)
(* decor and trailing are opaque texts.                                    *)
(***************************************************************************)
Values == {"x", "y"}

RECURSIVE SeqsUpTo(_, _)
SeqsUpTo(S, n) ==
    IF n = 0 THEN {<<>>}
    ELSE LET shorter == SeqsUpTo(S, n - 1)
         IN shorter \cup {Append(q, x) : q \in shorter, x \in S}

Arrays == [values : SeqsUpTo(Values, MaxLen), trailing_comma : BOOLEAN]

\* write!(f, "{}[", self.decor.prefix)?; join(f, self.iter(), ",")
ArrayStart ==
    /\ job = "Array"
    /\ pc = "start"
    /\ out' = out \o <<Tok("decor.prefix", 0, <<>>), Tok("[", 0, <<>>)>>
    /\ i' = 0
    /\ iter' = 1
    /\ pc' = "join"
    /\ UNCHANGED <<job, self, stack, path, positions, position_iter, current_position,
                   should_print, calls, walks, passes, advanced>>
    /\ UNCHANGED <<error, renders, first>>

\* A separator before every element, the first included.
JoinWrites_Leading(n, v, sep) == <<Tok(sep, 0, <<>>), Tok("value", 0, <<v>>)>>

\* The body of the loop of join for the element v of index n.
JoinWrites(n, v, sep) ==
    (IF n > 0 THEN <<Tok(sep, 0, <<>>)>> ELSE <<>>) \o <<Tok("value", 0, <<v>>)>>

\* for (i, v) in iter.enumerate() { .. }
JoinNext ==
    /\ pc = "join"
    /\ iter <= Len(self.values)
    /\ out' = out \o JoinWrites(i, self.values[iter], ",")
    /\ i' = i + 1
    /\ iter' = iter + 1
    /\ UNCHANGED <<job, self, pc, stack, path, positions, position_iter, current_position,
                   should_print, calls, walks, passes, advanced>>
    /\ UNCHANGED <<error, renders, first>>

\* if self.trailing_comma { "," }; self.trailing; "]" self.decor.suffix
ArrayClose ==
    /\ pc = "join"
    /\ iter > Len(self.values)
    /\ out' = out \o (IF self.trailing_comma THEN <<Tok(",", 0, <<>>)>> ELSE <<>>)
                  \o <<Tok("trailing", 0, <<>>), Tok("]", 0, <<>>), Tok("decor.suffix", 0, <<>>)>>
    /\ pc' = "done"
    /\ UNCHANGED <<job, self, stack, path, positions, position_iter, current_position,
                   should_print, i, iter, calls, walks, passes, advanced>>
    /\ UNCHANGED <<error, renders, first>>

(***************************************************************************)
(* Display for InlineTable.  An InlineTable is the sequence of the Item    *)
(* variants of its entries; the key of entry k is k.                       *)
(***************************************************************************)
ItemVariants == {"None", "Value", "Table", "ArrayOfTables"}

InlineTables == [items : SeqsUpTo(ItemVariants, MaxLen)]

is_value(item) == item = "Value"

\* write!(f, "{}{{", self.decor.prefix)?; write!(f, "{}", self.preamble)?
InlineStart ==
    /\ job = "InlineTable"
    /\ pc = "start"
    /\ out' = out \o <<Tok("decor.prefix", 0, <<>>), Tok("{", 0, <<>>), Tok("preamble", 0, <<>>)>>
    /\ i' = 0
    /\ iter' = 1
    /\ pc' = "entries"
    /\ UNCHANGED <<job, self, stack, path, positions, position_iter, current_position,
                   should_print, calls, walks, passes, advanced>>
    /\ UNCHANGED <<error, renders, first>>

\* enumerate() before filter: skipped entries are counted.
EnumerateNext_All(n, item) == n + 1

\* The index enumerate() gives the entry after this one: filter comes first.
EnumerateNext(n, item) == IF is_value(item) THEN n + 1 ELSE n

\* One entry of self.items through .filter(..).map(..).enumerate() and the body.
InlineNext ==
    /\ pc = "entries"
    /\ iter <= Len(self.items)
    /\ out' = IF is_value(self.items[iter])
              THEN out \o (IF i > 0 THEN <<Tok(",", 0, <<>>)>> ELSE <<>>)
                       \o <<Tok("key=value", 0, <<iter>>)>>
              ELSE out
    /\ i' = EnumerateNext(i, self.items[iter])
    /\ iter' = iter + 1
    /\ UNCHANGED <<job, self, pc, stack, path, positions, position_iter, current_position,
                   should_print, calls, walks, passes, advanced>>
    /\ UNCHANGED <<error, renders, first>>

\* write!(f, "}}{}", self.decor.suffix)
InlineClose ==
    /\ pc = "entries"
    /\ iter > Len(self.items)
    /\ out' = out \o <<Tok("}", 0, <<>>), Tok("decor.suffix", 0, <<>>)>>
    /\ pc' = "done"
    /\ UNCHANGED <<job, self, stack, path, positions, position_iter, current_position,
                   should_print, i, iter, calls, walks, passes, advanced>>
    /\ UNCHANGED <<error, renders, first>>

(***************************************************************************)
(* Specification.                                                          *)
(***************************************************************************)
Init ==
    /\ \/ job \in {"to_string", "to_string_in_original_order"} /\ self \in Documents
       \/ job = "Array" /\ self \in Arrays
       \/ job = "InlineTable" /\ self \in InlineTables
    /\ pc = "start"
    /\ stack = <<>>
    /\ path = <<>>
    /\ positions = <<>>
    /\ position_iter = 1
    /\ current_position = None
    /\ should_print = TRUE
    /\ i = 0
    /\ iter = 1
    /\ out = <<>>
    /\ calls = <<>>
    /\ walks = 0
    /\ passes = 0
    /\ advanced = 0
    /\ error = FALSE
    /\ renders = 1
    /\ first = <<>>

Next ==
    \/ FmtStart
    \/ OrigStart
    \/ Callback
    \/ NextItem
    \/ Return
    \/ FmtTableDone
    \/ Sorted
    \/ PassDone
    \/ WriteTrailing
    \/ TrailingFails
    \/ RenderAgain
    \/ ArrayStart
    \/ JoinNext
    \/ ArrayClose
    \/ InlineStart
    \/ InlineNext
    \/ InlineClose

Spec == Init /\ [][Next]_vars

(***************************************************************************)
(* Vocabulary of the properties.  The structure of the document is read    *)
(* from its items, not from the traversal.                                 *)
(***************************************************************************)
IsDocument == job \in {"to_string", "to_string_in_original_order"}
Plain == job = "to_string"
Original == job = "to_string_in_original_order"
Done == pc = "done"

Tables == 1..self.n

\* The nested tables of t in stored order, array members in sequence order.
ChildSeq(t) == Concat([j \in 1..Len(self.items[t]) |-> self.items[t][j].tables])
ChildSet(t) == {ChildSeq(t)[j] : j \in 1..Len(ChildSeq(t))}
IsChild(c, t) == c \in ChildSet(t)

RECURSIVE DescendantsUpTo(_, _)
DescendantsUpTo(t, depth) ==
    IF depth = 0 THEN {}
    ELSE ChildSet(t) \cup UNION {DescendantsUpTo(c, depth - 1) : c \in ChildSet(t)}
Descendants(t) == DescendantsUpTo(t, self.n)
Subtree(t) == {t} \cup Descendants(t)

\* c and c2 are members of one array of tables, c stored before c2.
MembersInOrder(c, c2) ==
    \E t \in Tables : \E j \in 1..Len(self.items[t]) :
        LET e == self.items[t][j]
        IN /\ e.item = "ArrayOfTables"
           /\ \E a, b \in 1..Len(e.tables) : a < b /\ e.tables[a] = c /\ e.tables[b] = c2

IsMember(c) ==
    \E t \in Tables : \E j \in 1..Len(self.items[t]) :
        /\ self.items[t][j].item = "ArrayOfTables"
        /\ \E a \in 1..Len(self.items[t][j].tables) : self.items[t][j].tables[a] = c

\* The invocations of visit_table on table t, as indices of calls.
CallsOf(t) == {k \in 1..Len(calls) : calls[k].table = t}
Count(t) == Cardinality(CallsOf(t))
\* Every block of a comes before every block of b.
Before(a, b) == \A j \in CallsOf(a), k \in CallsOf(b) : j < k
\* The block of b is written directly after the block of a.
DirectlyAfter(a, b) == \A k \in CallsOf(b) : k > 1 /\ calls[k - 1].table = a

Positioned(t) == is_some(self.position[t])
HasPositions == \E t \in Tables : Positioned(t)

\* C1: to_string_in_original_order invokes visit_table exactly once for each
\* table of the tree.
C1_EachTableOnce ==
    (Original /\ Done) => \A t \in Tables : Count(t) = 1

\* C2: the tables that carry a position are emitted, once each, in ascending
\* order of position: with positions p < q the block of p comes first.
C2_AscendingPositions ==
    (Original /\ Done) =>
        /\ \A t \in Tables : Positioned(t) => Count(t) = 1
        /\ \A a, b \in Tables :
              (Positioned(a) /\ Positioned(b) /\ self.position[a][1] < self.position[b][1])
                  => Before(a, b)

\* A render in which the stored order of two positioned tables is the
\* reverse of their positions: a child with the smaller position.
C2_Witness ==
    /\ Original /\ Done
    /\ \E a, b \in Tables :
          /\ b \in Descendants(a)
          /\ Positioned(a) /\ Positioned(b)
          /\ self.position[b][1] < self.position[a][1]
          /\ Count(a) = 1 /\ Count(b) = 1

\* The place of c among the nested tables of its parent t.
PlaceIn(t, c) == CHOOSE j \in 1..Len(ChildSeq(t)) : ChildSeq(t)[j] = c

\* The last table of the subtree of t in depth-first order.
RECURSIVE LastOf(_)
LastOf(t) == IF ChildSeq(t) = <<>> THEN t ELSE LastOf(Last(ChildSeq(t)))

\* c has a sibling with a position stored before it in t.
HasPositionedSiblingBefore(t, c) ==
    \E j \in 1..(PlaceIn(t, c) - 1) : Positioned(ChildSeq(t)[j])

\* The nearest sibling with a position stored before c in t.
PositionedSiblingBefore(t, c) ==
    LET j == CHOOSE j \in 1..(PlaceIn(t, c) - 1) :
                 /\ Positioned(ChildSeq(t)[j])
                 /\ \A k \in (j + 1)..(PlaceIn(t, c) - 1) : ~Positioned(ChildSeq(t)[k])
    IN ChildSeq(t)[j]

\* C3 as stated: a table without a position whose parent holds positioned
\* siblings before it is emitted directly after the block of the nearest of
\* these siblings.
C3_AfterPositionedSibling ==
    (Original /\ Done) =>
        \A t \in Tables : \A c \in ChildSet(t) :
            (~Positioned(c) /\ HasPositionedSiblingBefore(t, c))
                => Count(c) = 1 /\ DirectlyAfter(PositionedSiblingBefore(t, c), c)

\* C3 amended: such a table is emitted once, directly after the block of the
\* last table of the subtree of the sibling stored just before it, the table
\* the depth-first traversal visits just before it.
C3_AfterPrecedingTable ==
    (Original /\ Done) =>
        \A t \in Tables : \A c \in ChildSet(t) :
            (~Positioned(c) /\ HasPositionedSiblingBefore(t, c))
                => /\ Count(c) = 1
                   /\ DirectlyAfter(LastOf(ChildSeq(t)[PlaceIn(t, c) - 1]), c)

\* A render of a table without a position whose nearest positioned sibling
\* has a nested table: the block follows the nested table's block.
C3_Witness ==
    /\ Original /\ Done
    /\ \E t \in Tables : \E c \in ChildSet(t) :
          /\ ~Positioned(c)
          /\ HasPositionedSiblingBefore(t, c)
          /\ LastOf(ChildSeq(t)[PlaceIn(t, c) - 1]) # PositionedSiblingBefore(t, c)
          /\ Count(c) = 1
          /\ DirectlyAfter(LastOf(ChildSeq(t)[PlaceIn(t, c) - 1]), c)

ImplicitEmpty(t) == self.implicit[t] /\ values_len(self, t) = 0
HeaderLines(t) == {k \in 1..Len(out) : out[k].table = t /\ out[k].w \in {"[", "[["}}

\* C4 as stated: no header line is ever written for a table with implicit =
\* true and no direct Value entry, nested table or array member alike.
C4_NoHeaderForImplicit ==
    IsDocument => \A t \in Tables : ImplicitEmpty(t) => HeaderLines(t) = {}

\* C4 amended: no header line is ever written for such a table when it is a
\* nested table (Item::Table); as a member of an array of tables it gets its
\* [[path]] header with every block, whatever implicit is (a block cut short
\* by a failing sink may lack it).
C4_NoHeaderForImplicitTable ==
    IsDocument =>
        \A t \in Tables : ImplicitEmpty(t) =>
            IF IsMember(t)
            THEN /\ ~error => Cardinality(HeaderLines(t)) = Count(t)
                 /\ \A k \in HeaderLines(t) : out[k].w = "[["
            ELSE HeaderLines(t) = {}

\* An implicit nested table without values was visited by the original-order
\* render and wrote no header.
C4_Witness ==
    /\ Original /\ Done
    /\ \E t \in Tables :
          /\ t # Root /\ ~IsMember(t) /\ ImplicitEmpty(t)
          /\ Count(t) = 1
          /\ HeaderLines(t) = {}

\* C5: the plain render emits every table once, each table before all of its
\* descendants, the whole subtree of a table before its next sibling, and the
\* members of an array of tables in their stored order, whatever the positions.
C5_PlainOrder ==
    (Plain /\ Done) =>
        \A t \in Tables :
            /\ Count(t) = 1
            /\ \A d \in Descendants(t) : Before(t, d)
            /\ \A j, k \in 1..Len(ChildSeq(t)) :
                  j < k => \A x \in Subtree(ChildSeq(t)[j]), y \in Subtree(ChildSeq(t)[k]) :
                               Before(x, y)
            /\ \A c \in Tables : MembersInOrder(t, c) => Before(t, c)

\* A plain render of an array of tables whose later member has the smaller
\* position, and of a nested table with a smaller position than its parent.
C5_Witness ==
    /\ Plain /\ Done
    /\ \E a, b \in Tables :
          /\ MembersInOrder(a, b)
          /\ Positioned(a) /\ Positioned(b)
          /\ self.position[b][1] < self.position[a][1]
          /\ Before(a, b) /\ Count(a) = 1 /\ Count(b) = 1

\* The tables in plain depth-first order, read from the items.
RECURSIVE PreorderOf(_)
PreorderOf(t) ==
    <<t>> \o Concat([j \in 1..Len(ChildSeq(t)) |-> PreorderOf(ChildSeq(t)[j])])

\* The table that governs each table t: the last table with a position at or
\* before t in depth-first order, 0 if there is none.
Governors ==
    LET order == PreorderOf(Root)
    IN [t \in Tables |->
          LET place == CHOOSE k \in 1..Len(order) : order[k] = t
              S == {k \in 1..place : Positioned(order[k])}
          IN IF S = {} THEN 0 ELSE order[CHOOSE k \in S : \A m \in S : m <= k]]

\* The reconstruction keeps the stored order of a (first) and b, gov the
\* governing tables.
KeepsOrder(gov, a, b) ==
    \/ gov[a] = 0
    \/ gov[a] = gov[b]
    \/ /\ gov[b] # 0
       /\ self.position[gov[a]][1] < self.position[gov[b]][1]

\* C6 as stated: in the original-order render every table is emitted after
\* its parent and the members of an array in their stored order.
C6_StructurallyValid ==
    (Original /\ Done) =>
        /\ \A t \in Tables : \A c \in ChildSet(t) : Before(t, c)
        /\ \A a, b \in Tables : MembersInOrder(a, b) => Before(a, b)

\* C6 amended: a table is emitted after its parent, and a member after an
\* earlier member of its array, whenever both are governed by the same
\* positioned table, the first is governed by none, or the position that
\* governs the first is strictly smaller.
C6_ValidWhereGoverned ==
    (Original /\ Done) =>
        LET gov == Governors
        IN /\ \A t \in Tables : \A c \in ChildSet(t) :
                 KeepsOrder(gov, t, c) => Before(t, c)
           /\ \A a, b \in Tables :
                 (MembersInOrder(a, b) /\ KeepsOrder(gov, a, b)) => Before(a, b)

\* A render of several passes that emitted a table without a position after
\* its parent, the two governed by different positioned tables.
C6_Witness ==
    /\ Original /\ Done
    /\ passes >= 2
    /\ \E t \in Tables : \E c \in ChildSet(t) :
          /\ ~Positioned(c)
          /\ Governors[t] # 0 /\ Governors[t] # Governors[c]
          /\ KeepsOrder(Governors, t, c)
          /\ Count(t) = 1 /\ Count(c) = 1 /\ Before(t, c)

\* C7: the while loop starts at most Len(positions) passes, one tree walk
\* more counting the collecting walk, and every pass that returns has moved
\* the cursor at least once.
C7_PassesBounded ==
    Original =>
        /\ pc \in {"pass", "trailing", "done"} =>
              /\ passes <= Len(positions)
              /\ walks = passes + 1
        /\ (pc = "pass" /\ RootReturns) => advanced >= 1

\* A render that needed as many passes as there are positions, at least two.
C7_Witness ==
    /\ Original /\ Done
    /\ passes = Len(positions)
    /\ passes >= 2

ArrayBody == SubSeq(out, 3, Len(out) - (IF self.trailing_comma THEN 4 ELSE 3))

\* C8: an Array is written as decor.prefix, "[", the elements in order with
\* one comma between two consecutive elements and nowhere else, "," if
\* trailing_comma, trailing, "]", decor.suffix.
C8_ArrayText ==
    (job = "Array" /\ Done) =>
        LET n == Len(self.values)
            m == Len(out)
        IN /\ m = 2 + (IF n = 0 THEN 0 ELSE 2 * n - 1)
                    + (IF self.trailing_comma THEN 1 ELSE 0) + 3
           /\ out[1].w = "decor.prefix" /\ out[2].w = "["
           /\ \A k \in 1..n : ArrayBody[2 * k - 1] = Tok("value", 0, <<self.values[k]>>)
           /\ \A k \in 1..(n - 1) : ArrayBody[2 * k].w = ","
           /\ self.trailing_comma => out[m - 3].w = ","
           /\ out[m - 2].w = "trailing" /\ out[m - 1].w = "]" /\ out[m].w = "decor.suffix"
           /\ Cardinality({k \in 1..m : out[k].w = ","})
                  = (IF n = 0 THEN 0 ELSE n - 1) + (IF self.trailing_comma THEN 1 ELSE 0)

\* An empty array with a trailing comma and an array of several elements
\* were rendered.
C8_Witness ==
    /\ job = "Array" /\ Done
    /\ \/ Len(self.values) = 0 /\ self.trailing_comma
       \/ Len(self.values) >= 2

\* The entries of the InlineTable whose Item is a Value, in stored order.
RECURSIVE ValueEntries(_, _)
ValueEntries(items, k) ==
    IF k > Len(items) THEN <<>>
    ELSE (IF items[k] = "Value" THEN <<k>> ELSE <<>>) \o ValueEntries(items, k + 1)

\* C9: an InlineTable is written as decor.prefix, "{", preamble, one
\* key=value for each entry whose Item is a Value, in stored order, with one
\* comma between two consecutive ones and nowhere else, "}", decor.suffix.
C9_InlineTableText ==
    (job = "InlineTable" /\ Done) =>
        LET emitted == ValueEntries(self.items, 1)
            n == Len(emitted)
            m == Len(out)
            body == SubSeq(out, 4, m - 2)
        IN /\ m = 3 + (IF n = 0 THEN 0 ELSE 2 * n - 1) + 2
           /\ out[1].w = "decor.prefix" /\ out[2].w = "{" /\ out[3].w = "preamble"
           /\ \A k \in 1..n : body[2 * k - 1] = Tok("key=value", 0, <<emitted[k]>>)
           /\ \A k \in 1..(n - 1) : body[2 * k].w = ","
           /\ out[m - 1].w = "}" /\ out[m].w = "decor.suffix"

\* An InlineTable of three entries, the second not a Value, was rendered.
C9_Witness ==
    /\ job = "InlineTable" /\ Done
    /\ Len(self.items) = 3
    /\ self.items[1] = "Value" /\ self.items[2] # "Value" /\ self.items[3] = "Value"
    /\ Cardinality({k \in 1..Len(out) : out[k].w = ","}) = 1

TrailingWritten == {k \in 1..Len(out) : out[k].w = "trailing"}

\* C10: both renders of a document write document.trailing exactly once, as
\* the last write, after every table block; nothing is written after it and
\* it is not written before the traversal is over.
C10_TrailingLast ==
    IsDocument =>
        IF Done
        THEN /\ Len(out) >= 1
             /\ TrailingWritten = {Len(out)}
        ELSE TrailingWritten = {}

\* An original-order render that emitted no table block wrote the trailing
\* text alone.
C10_Witness ==
    /\ Original /\ Done
    /\ calls = <<>>
    /\ self.n >= 2
    /\ Len(out) = 1 /\ out[1].w = "trailing"

\* C11: a write or a callback that returns Err ends the render: the error
\* is what the caller gets, and from then on no callback is invoked and
\* nothing is written, document.trailing included.
C11_ErrorAborts ==
    [][IsDocument =>
          /\ error' => (pc' = "error" /\ TrailingWritten' = {})
          /\ error => (out' = out /\ calls' = calls)]_vars

\* The sink failed in a later pass of the original-order loop, in the middle
\* of a block, with tables of the tree still to emit.
C11_Witness ==
    /\ Original /\ error /\ pc = "error"
    /\ passes >= 2
    /\ out # <<>> /\ Last(out).table = Last(calls).table
    /\ \E t \in Tables : Count(t) = 0

\* C12: no step of a render changes the document, and a second render of
\* the same document in the same mode returns the text of the first.
C12_Idempotent ==
    [][IsDocument =>
          /\ self' = self
          /\ (renders' = 2 /\ pc' = "done") => out' = first']_vars

\* The second original-order render of a document of several passes is
\* over and its text is the text of the first.
C12_Witness ==
    /\ Original /\ Done
    /\ renders = 2
    /\ passes >= 2
    /\ Len(out) >= 3
    /\ out = first

\* The table whose items hold c, and the key of the entry that holds it.
ParentOf(c) == CHOOSE t \in Tables : IsChild(c, t)
KeyOf(c) ==
    LET t == ParentOf(c)
        j == CHOOSE j \in 1..Len(self.items[t]) :
                 \E m \in 1..Len(self.items[t][j].tables) : self.items[t][j].tables[m] = c
    IN self.items[t][j].key

\* The keys from the root to t, read from the items.
RECURSIVE KeyPath(_)
KeyPath(t) == IF t = Root THEN <<>> ELSE Append(KeyPath(ParentOf(t)), KeyOf(t))

\* p is the sequence of keys from table t down to table c: each key is the
\* key of an entry of the table before, a nested table or an array of tables
\* with the next table among its members.
RECURSIVE LeadsTo(_, _, _)
LeadsTo(t, p, c) ==
    IF p = <<>> THEN t = c
    ELSE \E j \in 1..Len(self.items[t]) :
             /\ self.items[t][j].key = Head(p)
             /\ \E m \in 1..Len(self.items[t][j].tables) :
                    LeadsTo(self.items[t][j].tables[m], Tail(p), c)

\* C13: in every walk of the tree the path is the sequence of keys from the
\* root to the table the walk is at, so every callback gets the key path of
\* its table (the members of one array all get the same path), and when a
\* walk has returned Ok the path is empty, as it was at entry.  The latest
\* entry of the log is checked in every state: every entry is the latest
\* in the state that follows its invocation.
C13_PathIsKeyPath ==
    IsDocument =>
        /\ (Walking /\ stack # <<>>) => LeadsTo(Root, path, Top.table)
        /\ calls # <<>> => LeadsTo(Root, Last(calls).path, Last(calls).table)
        /\ (RootReturns \/ pc \in {"trailing", "done"}) => path = <<>>

\* An original-order render of several passes is over, the path empty again;
\* it visited two members of one array of tables with one and the same path.
C13_Witness ==
    /\ Original /\ Done
    /\ passes >= 2
    /\ path = <<>>
    /\ \E j, k \in 1..Len(calls) :
          /\ MembersInOrder(calls[j].table, calls[k].table)
          /\ calls[j].path = calls[k].path
          /\ Len(calls[j].path) >= 1

\* The place of each table in plain depth-first order.
DfsPlace ==
    LET order == PreorderOf(Root)
    IN [t \in Tables |-> CHOOSE k \in 1..Len(order) : order[k] = t]

\* C14: when the tree has a positioned table, each table without a position
\* that the depth-first order reaches before the first positioned table is
\* emitted once, in the first pass and in no later one, before the block of
\* every positioned table, and these tables are emitted in depth-first order.
C14_LeadingRunInFirstPass ==
    (Original /\ Done /\ HasPositions) =>
        LET gov == Governors
            place == DfsPlace
        IN \A t \in Tables : gov[t] = 0 =>
               /\ Count(t) = 1
               /\ \A k \in CallsOf(t) : calls[k].pass = 1
               /\ \A b \in Tables : Positioned(b) => Before(t, b)
               /\ \A a \in Tables : (gov[a] = 0 /\ place[a] < place[t]) => Before(a, t)

\* A render of several passes whose tree starts with two tables without a
\* position: both were emitted in the first pass.
C14_Witness ==
    /\ Original /\ Done
    /\ passes >= 2
    /\ \E a, b \in Tables :
          /\ a # b
          /\ Governors[a] = 0 /\ Governors[b] = 0
          /\ Count(a) = 1 /\ Count(b) = 1
          /\ \A k \in CallsOf(a) \cup CallsOf(b) : calls[k].pass = 1

\* The one invocation of visit_table on t, as an index of calls.
CallOf(t) == CHOOSE k \in CallsOf(t) : TRUE

\* C15: a table without a position that follows the positioned table Q in
\* depth-first order, no positioned table between them, is emitted once, in
\* the pass that emits Q and in no other, as many blocks after the block of
\* Q as it is tables after Q in depth-first order: the run after Q is one
\* contiguous sequence of blocks directly after Q, in depth-first order.
C15_RunFollowsItsTable ==
    (Original /\ Done) =>
        LET gov == Governors
            place == DfsPlace
        IN \A t \in Tables : (gov[t] # 0 /\ gov[t] # t) =>
               /\ Count(t) = 1 /\ Count(gov[t]) = 1
               /\ CallOf(t) = CallOf(gov[t]) + (place[t] - place[gov[t]])
               /\ calls[CallOf(t)].pass = calls[CallOf(gov[t])].pass

\* A render emitted a positioned table in its second pass or later, with a
\* table without a position right behind it, after a block that the
\* depth-first order puts behind both.
C15_Witness ==
    /\ Original /\ Done
    /\ \E t \in Tables :
          LET q == Governors[t]
          IN /\ q # 0 /\ q # t
             /\ Count(t) = 1 /\ Count(q) = 1
             /\ calls[CallOf(q)].pass >= 2
             /\ CallOf(t) = CallOf(q) + 1
             /\ calls[CallOf(q) - 1].table \in Descendants(q)

\* The positions grow strictly along the plain depth-first order.
IncreasingInDfsOrder ==
    LET place == DfsPlace
    IN \A a, b \in Tables :
           (Positioned(a) /\ Positioned(b) /\ place[a] < place[b])
               => self.position[a][1] < self.position[b][1]

\* The tables of the blocks emitted so far, in the order of emission.
Emitted == [k \in 1..Len(calls) |-> calls[k].table]

\* The text of the tree in plain depth-first order, read from the items:
\* the block of each table under its key path, then the trailing text.
TextInDfsOrder ==
    LET order == PreorderOf(Root)
    IN Concat([k \in 1..Len(order) |->
                  visit_table(self, order[k], KeyPath(order[k]), IsMember(order[k]))])
           \o TrailingWrites

\* C16: the plain render emits the blocks of the tables in depth-first order
\* and returns the text of that sequence; when a table has a position and
\* the positions grow strictly along the depth-first order, the
\* original-order render is over after one pass and emits the same sequence
\* of blocks and returns the same text.
C16_SameAsPlain ==
    (IsDocument /\ Done) =>
        /\ Plain => (Emitted = PreorderOf(Root) /\ out = TextInDfsOrder)
        /\ (Original /\ HasPositions /\ IncreasingInDfsOrder) =>
              /\ passes = 1
              /\ Emitted = PreorderOf(Root)
              /\ out = TextInDfsOrder

\* An original-order render of a tree with three tables whose positions grow
\* in depth-first order, and a table without a position, took one pass.
C16_Witness ==
    /\ Original /\ Done
    /\ IncreasingInDfsOrder
    /\ Cardinality({t \in Tables : Positioned(t)}) >= 3
    /\ \E t \in Tables : ~Positioned(t)
    /\ passes = 1
    /\ out = TextInDfsOrder

\* The pass that emitted t, and the tables with a position.
PassOf(t) == calls[CallOf(t)].pass
PositionedTables == {t \in Tables : Positioned(t)}
SamePosition(a, b) ==
    Positioned(a) /\ Positioned(b) /\ a # b /\ self.position[a] = self.position[b]

\* The blocks of positioned tables emitted in the pass under way.
MatchesInPass == {k \in 1..Len(calls) : calls[k].pass = passes /\ Positioned(calls[k].table)}

====
